---------------------------- MODULE Spec2Model ----------------------------
(***************************************************************************)
(* A model of vertx/eventbus.py: the Delivery frame codec and the EventBus *)
(* session (listener registry, outbound queue, the asyncio event loop      *)
(* that runs _connect_then_listen and ping on the "event-bus-async"        *)
(* thread, and the caller's connect / send / disconnect).                  *)
(*                                                                         *)
(* The asyncio loop is modelled at the granularity of its _ready queue:    *)
(* one action runs one handle; an iteration (_run_once) runs the handles   *)
(* that were ready when it began, and loop._stopping is looked at only     *)
(* between iterations, as BaseEventLoop.run_forever does.                  *)
(***************************************************************************)
EXTENDS Integers, Sequences, FiniteSets, TLC

(***************************************************************************)
(* Bounds of the model.                                                    *)
(***************************************************************************)
MaxCalls    == 1   \* the caller's API calls in a session it disconnects
MaxSends    == 2   \* the caller's send calls when the outbound path is examined
MaxRegCalls == 2   \* the caller's API calls when the registry is examined
MaxPings    == 1   \* expiries of the keepalive timer
MaxInbound  == 1   \* frames the peer writes to the connection
MaxFrames   == 2   \* frames the peer writes when the inbound path is examined

(***************************************************************************)
(* Values.  None is Python's None, "" a falsy (empty) value.               *)
(***************************************************************************)
None == "None"
Truthy(v) == v \notin {None, ""}

OptKeys  == <<"address", "replyAddress", "header", "body">>
KeyOrder == <<"type">> \o OptKeys
Vals     == <<"ping", "send", "register", "message", "a", "b", "x", "y">>

Range(s) == {s[i] : i \in 1..Len(s)}
Min(a, b) == IF a < b THEN a ELSE b
IndexOf(s, v) == CHOOSE i \in 1..Len(s) : s[i] = v

(***************************************************************************)
(* Delivery.__init__: data = {"type": type} plus every truthy optional     *)
(* field, inserted in the order address, replyAddress, header, body.       *)
(***************************************************************************)
Delivery(type, address, replyAddress, header, body) ==
    LET args == [k \in Range(KeyOrder) |->
                    CASE k = "type"         -> type
                      [] k = "address"      -> address
                      [] k = "replyAddress" -> replyAddress
                      [] k = "header"       -> header
                      [] k = "body"         -> body]
        present == {"type"} \cup {k \in Range(OptKeys) : Truthy(args[k])}
    IN  [k \in present |-> args[k]]

\* a keepalive that would carry an address
PingWithAddress == Delivery("ping", "a", None, None, None)

\* Delivery(), the envelope ping() sends
Ping == Delivery("ping", None, None, None, None)

\* dict.get(key): None when the key is absent
Get(d, k) == IF k \in DOMAIN d THEN d[k] ELSE None

(***************************************************************************)
(* The JSON text of a mapping, one unit ("byte") per brace and per member: *)
(* "{" = 123, "}" = 125, and a member key:value is 16 * (index of the key  *)
(* in KeyOrder) + (index of the value in Vals).  json.dumps writes the     *)
(* members in insertion order.                                             *)
(***************************************************************************)
LBrace == 123
RBrace == 125
Member(k, v) == 16 * IndexOf(KeyOrder, k) + IndexOf(Vals, v)
IsMember(u) == /\ u \div 16 \in 1..Len(KeyOrder)
               /\ u % 16 \in 1..Len(Vals)
MemberKey(u) == KeyOrder[u \div 16]
MemberVal(u) == Vals[u % 16]

Dumps(data) ==
    LET keys == SelectSeq(KeyOrder, LAMBDA k : k \in DOMAIN data)
    IN  <<LBrace>> \o [i \in 1..Len(keys) |-> Member(keys[i], data[keys[i]])] \o <<RBrace>>

\* json.loads: the mapping, or a JSONDecodeError (ok = FALSE).  A repeated
\* key keeps its last value.
Loads(text) ==
    LET n    == Len(text)
        good == /\ n >= 2
                /\ text[1] = LBrace
                /\ text[n] = RBrace
                /\ \A i \in 2..(n - 1) : IsMember(text[i])
        keys == {MemberKey(text[i]) : i \in 2..(n - 1)}
        last(k) == CHOOSE i \in 2..(n - 1) :
                      /\ MemberKey(text[i]) = k
                      /\ \A j \in (i + 1)..(n - 1) : MemberKey(text[j]) # k
    IN  IF good
        THEN [ok |-> TRUE,  obj |-> [k \in keys |-> MemberVal(text[last(k)])]]
        ELSE [ok |-> FALSE, obj |-> [k \in {} |-> None]]

\* struct.pack("!i", n): four bytes, big-endian
PrefixLen == 4
Pack(n) == <<(n \div 16777216) % 256, (n \div 65536) % 256, (n \div 256) % 256, n % 256>>

\* int.from_bytes(b, 'big')
RECURSIVE FromBytes(_)
FromBytes(b) ==
    IF b = <<>> THEN 0
    ELSE FromBytes(SubSeq(b, 1, Len(b) - 1)) * 256 + b[Len(b)]

\* Python slice b[lo:hi] (0-based, clamped to the length)
Slice(b, lo, hi) == SubSeq(b, Min(lo, Len(b)) + 1, Min(hi, Len(b)))

\* Delivery.serialize
Serialize(data) ==
    LET msg == Dumps(data)
    IN  Pack(Len(msg)) \o msg

\* Delivery.deserialize
Deserialize(byte_array) ==
    LET length == FromBytes(Slice(byte_array, 0, PrefixLen))
        text   == Slice(byte_array, PrefixLen, PrefixLen + length)
    IN  Loads(text)


(***************************************************************************)
(* Inputs: the envelopes the caller sends, the addresses and handlers it   *)
(* registers, what a caller-supplied handler does when it is invoked, and  *)
(* the frames the peer writes.                                             *)
(***************************************************************************)
Addrs == {"a", "b"}
SendA     == Delivery("send", "a", None, None, "x")
RegisterA == Delivery("register", "a", None, None, None)
Register0 == Delivery("register", None, None, None, None)
SendEnvs == {SendA, RegisterA, Register0}
CallerHandlers == {"h1"}
DefaultHandler == "log"   \* lambda x: LOGGER.info(...), installed by send
HandlerBehaviours == {"return", "raise", "disconnect"}
MessageA  == Delivery("message", "a", None, None, "x")
NoBody    == Delivery("message", "a", None, None, None)
NoAddress == Delivery("message", None, None, None, "y")
PeerEnvs == {MessageA, NoBody, NoAddress}

RECURSIVE Flatten(_)
Flatten(ss) == IF ss = <<>> THEN <<>> ELSE Head(ss) \o Flatten(Tail(ss))

\* the byte streams a peer may write: up to MaxInbound whole frames of envs
PeerScripts(envs, most) ==
    {Flatten([i \in 1..Len(es) |-> Serialize(es[i])]) :
        es \in UNION {[1..n -> envs] : n \in 0..most}}

\* the offsets of a byte stream of whole frames at which a frame ends
RECURSIVE FrameEnds(_, _)
FrameEnds(bytes, at) ==
    IF Len(bytes) < PrefixLen THEN {}
    ELSE LET size == PrefixLen + FromBytes(SubSeq(bytes, 1, PrefixLen))
         IN  {at + size} \cup FrameEnds(SubSeq(bytes, size + 1, Len(bytes)), at + size)

ReadLimit == 100000   \* reader.read(100000)

VARIABLES
    listen_funcs,   \* self.listen_funcs: address -> handler
    inputs,         \* self.inputs: the asyncio.Queue's items
    stop_sign,      \* self.stop_sign: "pending" | "done"
    daemon,         \* self.daemon: "initial" | "started" | "stopped"
    stopping,       \* self.loop._stopping
    ready,          \* self.loop._ready: the handles to run, oldest first
    ntodo,          \* handles of the current iteration still to run (0: between
                    \*   iterations)
    conn,           \* the _connect_then_listen task: "none" | "created" |
                    \*   "connecting" | "waiting" | "finished"
    connErr,        \* how that task ended: "none" | "refused" | "error" | "stop"
    incoming,       \* the reader.read task of the current loop iteration
    outgoing,       \* the inputs.get task of the current loop iteration
    inData,         \* incoming.result()
    outItem,        \* outgoing.result()
    sock,           \* the transport: "none" | "refused" | "open" | "reset" |
                    \*   "closing" | "closed"
    rbuf,           \* StreamReader._buffer
    eof,            \* StreamReader._eof
    rexc,           \* StreamReader._exception is set
    script,         \* every byte the peer writes during the session
    peerOut,        \* the bytes of script the socket has not yet received
    pingTask,       \* the ping task: "none" | "created" | "sleeping" | "woken"
    ticks,          \* expiries of the keepalive timer so far
    disc,           \* the caller's disconnect(): "idle" | "signalled" |
                    \*   "stopped" | "returned"
    discRunning,    \* the connection loop was blocked in asyncio.wait, waiting
                    \*   for wire data and for a queue item, when the caller
                    \*   called disconnect()
    hdisc,          \* a handler's call of disconnect() on the loop thread:
                    \*   "none" | "raised"
    hres,           \* how the last call of a caller-supplied handler ended:
                    \*   "none" | "return" | "raise" | "disconnect"
    handed,         \* the bytes passed to Delivery.deserialize by the loop so
                    \*   far, concatenated
    codec,          \* a codec round trip made by the caller: its stage and the
                    \*   arguments, e.data, the frame and the decoded mapping
    ncalls,         \* the caller's API calls so far
    regLog,         \* the registering calls so far, in order
    sendLog,        \* the envelopes passed to send(), in call order
    written,        \* the frames passed to writer.write(), in order
    dispatched,     \* the mappings passed to listen(), in order
    invoked,        \* the handler invocations <<handler, body>>, in order
    loopTasks,      \* _connect_then_listen tasks created on the loop
    pingTasks       \* ping tasks created on the loop

vars == <<listen_funcs, inputs, stop_sign, daemon, stopping, ready, ntodo,
          conn, connErr, incoming, outgoing, inData, outItem, sock, rbuf, eof,
          rexc, script, peerOut, pingTask, ticks, disc, discRunning, hdisc, hres,
          handed, codec, ncalls, regLog, sendLog, written, dispatched, invoked,
          loopTasks, pingTasks>>

loopVars   == <<stop_sign, stopping, ready, ntodo>>
taskVars   == <<conn, connErr, incoming, outgoing, inData, outItem>>
sockVars   == <<sock, rbuf, eof, rexc, script, peerOut>>
pingVars   == <<pingTask, ticks>>
callerVars == <<disc, discRunning, ncalls, regLog>>
logVars    == <<sendLog, written, dispatched, invoked>>
countVars  == <<loopTasks, pingTasks>>
restVars   == <<hres, handed, codec>>

\* a handle of loop._ready: what it calls and, for put_nowait, its argument
H(k)    == [k |-> k, e |-> Ping]
HPut(e) == [k |-> "put", e |-> e]

EmptyDict == [k \in {} |-> None]

\* no codec round trip is being made
NoCodec == [stage |-> "idle", args |-> <<>>, data |-> EmptyDict, frame |-> <<>>,
            ok |-> FALSE, obj |-> EmptyDict]

\* EventBus.__init__, with the byte stream the peer is going to write
InitWith(scripts) ==
    /\ listen_funcs = EmptyDict
    /\ inputs = <<>>
    /\ stop_sign = "pending"
    /\ daemon = "initial"
    /\ stopping = FALSE
    /\ ready = <<>>
    /\ ntodo = 0
    /\ conn = "none"
    /\ connErr = "none"
    /\ incoming = "none"
    /\ outgoing = "none"
    /\ inData = <<>>
    /\ outItem = Ping
    /\ sock = "none"
    /\ rbuf = <<>>
    /\ eof = FALSE
    /\ rexc = FALSE
    /\ script \in scripts
    /\ peerOut = script
    /\ pingTask = "none"
    /\ ticks = 0
    /\ disc = "idle"
    /\ discRunning = FALSE
    /\ hdisc = "none"
    /\ hres = "none"
    /\ handed = <<>>
    /\ codec = NoCodec
    /\ ncalls = 0
    /\ regLog = <<>>
    /\ sendLog = <<>>
    /\ written = <<>>
    /\ dispatched = <<>>
    /\ invoked = <<>>
    /\ loopTasks = 0
    /\ pingTasks = 0

(***************************************************************************)
(* The listener registry and send.                                         *)
(***************************************************************************)
\* d[k] = v on a dict
DictSet(d, k, v) == [x \in DOMAIN d \cup {k} |-> IF x = k THEN v ELSE d[x]]
\* del d[k]; a KeyError is caught and logged, the dict is left as it was
DictDel(d, k) == [x \in DOMAIN d \ {k} |-> d[x]]

\* line 95 of send
Registers(payload) ==
    Truthy(Get(payload, "address")) /\ Get(payload, "type") = "register"

\* send as it would be if it kept a handler that is already registered
SendRegistersKeep(funcs, payload) ==
    IF Registers(payload) /\ Get(payload, "address") \notin DOMAIN funcs
    THEN DictSet(funcs, Get(payload, "address"), DefaultHandler)
    ELSE funcs

\* send as it would be if it registered for every envelope with an address
SendRegistersAnyType(funcs, payload) ==
    IF Truthy(Get(payload, "address"))
    THEN DictSet(funcs, Get(payload, "address"), DefaultHandler)
    ELSE funcs

\* lines 94-96 of send: the registry after send(payload)
SendRegisters(funcs, payload) ==
    IF Registers(payload)
    THEN DictSet(funcs, Get(payload, "address"), DefaultHandler)
    ELSE funcs

\* line 97 of send: loop.call_soon_threadsafe(self.inputs.put_nowait, payload)
CallSoonPut(rdy, payload) == Append(rdy, HPut(payload))

\* a queue that would put the newest item first
QueuePutFront(items, item) == <<item>> \o items

\* asyncio.Queue.put_nowait / get_nowait on the queue's items (FIFO)
QueuePut(items, item) == Append(items, item)
QueueHead(items) == Head(items)
QueueRest(items) == Tail(items)

\* line 111 of listen: the early return
ListenSkips(obj) == "address" \notin DOMAIN obj \/ "body" \notin DOMAIN obj

\* listen as it would be without the check for "body"
ListenNoBodyCheck(funcs, obj) ==
    IF "address" \notin DOMAIN obj
    THEN <<>>
    ELSE LET func == Get(funcs, obj["address"])
         IN  IF func # None THEN <<<<func, Get(obj, "body")>>>> ELSE <<>>

\* EventBus.listen: the handler invocations it makes for obj, as a sequence
\* of <<handler, body>>
Listen(funcs, obj) ==
    IF ListenSkips(obj)
    THEN <<>>
    ELSE LET func == Get(funcs, obj["address"])
         IN  IF func # None THEN <<<<func, obj["body"]>>>> ELSE <<>>

\* EventBus.send, called by the caller (who makes at most limit calls)
Send(payload, limit) ==
    /\ ncalls < limit
    /\ listen_funcs' = SendRegisters(listen_funcs, payload)
    /\ ready' = CallSoonPut(ready, payload)
    /\ sendLog' = Append(sendLog, payload)
    /\ ncalls' = ncalls + 1
    /\ regLog' = IF Registers(payload)
                 THEN Append(regLog, <<"register", payload["address"], DefaultHandler>>)
                 ELSE regLog
    /\ UNCHANGED <<inputs, stop_sign, daemon, stopping, ntodo, taskVars,
                   sockVars, pingVars, disc, discRunning, hdisc, restVars, written,
                   dispatched, invoked, countVars>>

\* EventBus.add_listen_func
AddListenFunc(address, func, limit) ==
    /\ ncalls < limit
    /\ listen_funcs' = DictSet(listen_funcs, address, func)
    /\ ncalls' = ncalls + 1
    /\ regLog' = Append(regLog, <<"add", address, func>>)
    /\ UNCHANGED <<inputs, loopVars, daemon, taskVars, sockVars, pingVars, disc,
                   discRunning, hdisc, restVars, logVars, countVars>>

\* EventBus.delete_listen_func
DeleteListenFunc(address, limit) ==
    /\ ncalls < limit
    /\ listen_funcs' = DictDel(listen_funcs, address)
    /\ ncalls' = ncalls + 1
    /\ regLog' = Append(regLog, <<"delete", address, None>>)
    /\ UNCHANGED <<inputs, loopVars, daemon, taskVars, sockVars, pingVars, disc,
                   discRunning, hdisc, restVars, logVars, countVars>>

(***************************************************************************)
(* connect and disconnect, called by the caller on its own thread.         *)
(***************************************************************************)
\* a connect that would start from an empty loop, dropping what was
\* scheduled on it before
ConnectFresh ==
    /\ daemon = "initial"
    /\ ready' = <<H("step_main"), H("step_ping")>>
    /\ conn' = "created"
    /\ pingTask' = "created"
    /\ loopTasks' = loopTasks + 1
    /\ pingTasks' = pingTasks + 1
    /\ daemon' = "started"
    /\ UNCHANGED <<listen_funcs, inputs, stop_sign, stopping, ntodo, connErr,
                   incoming, outgoing, inData, outItem, sockVars, ticks,
                   callerVars, hdisc, restVars, logVars>>

\* EventBus.connect: two create_task calls, each scheduling the task's first
\* step with call_soon, then daemon.start()
Connect ==
    /\ daemon = "initial"
    /\ ready' = ready \o <<H("step_main"), H("step_ping")>>
    /\ conn' = "created"
    /\ pingTask' = "created"
    /\ loopTasks' = loopTasks + 1
    /\ pingTasks' = pingTasks + 1
    /\ daemon' = "started"
    /\ UNCHANGED <<listen_funcs, inputs, stop_sign, stopping, ntodo, connErr,
                   incoming, outgoing, inData, outItem, sockVars, ticks,
                   callerVars, hdisc, restVars, logVars>>

\* the connection loop is blocked in asyncio.wait (line 59): both of its
\* waits are suspended and nothing has completed yet
Blocked ==
    /\ conn = "waiting"
    /\ incoming = "wait"
    /\ outgoing = "wait"
    /\ stop_sign = "pending"
    /\ \A i \in 1..Len(ready) : ready[i].k # "step_main"

\* a join that would not wait for the thread
JoinReturnsAtOnce(thread) == thread \in {"started", "stopped"}

\* daemon.join() returns once the thread has finished
JoinReturns(thread) == thread = "stopped"

\* disconnect, line 105: loop.call_soon_threadsafe(self.stop_sign.set_result, None)
DisconnectSignal ==
    /\ disc = "idle"
    /\ daemon = "started"
    /\ ready' = Append(ready, H("set_stop"))
    /\ disc' = "signalled"
    /\ discRunning' = Blocked
    /\ UNCHANGED <<listen_funcs, inputs, stop_sign, daemon, stopping, ntodo,
                   taskVars, sockVars, pingVars, hdisc, restVars, ncalls, regLog, logVars,
                   countVars>>

\* disconnect, line 106: loop.stop() sets loop._stopping from the caller's thread
DisconnectStop ==
    /\ disc = "signalled"
    /\ stopping' = TRUE
    /\ disc' = "stopped"
    /\ UNCHANGED <<listen_funcs, inputs, stop_sign, daemon, ready, ntodo,
                   taskVars, sockVars, pingVars, discRunning, hdisc, restVars, ncalls, regLog,
                   logVars, countVars>>

\* disconnect, line 107: daemon.join(), then return
DisconnectJoin ==
    /\ disc = "stopped"
    /\ JoinReturns(daemon)
    /\ disc' = "returned"
    /\ UNCHANGED <<listen_funcs, inputs, loopVars, daemon, taskVars, sockVars,
                   pingVars, discRunning, hdisc, restVars, ncalls, regLog, logVars, countVars>>

(***************************************************************************)
(* The loop thread: BaseEventLoop.run_forever and _run_once.               *)
(***************************************************************************)
\* the loop thread runs; its steps are specified for the one pair of tasks
\* that the first connect() creates
LoopThread == daemon = "started" /\ loopTasks = 1

\* the events select() can report
Events ==
    {ev \in {"connected", "readable", "timer"} :
        CASE ev = "connected" -> conn = "connecting" /\ sock = "none"
          [] ev = "readable"  -> sock = "open" /\ ~eof
          [] ev = "timer"     -> pingTask = "sleeping" /\ ticks < MaxPings}

\* the handles the events add to _ready: the connecting task's next step,
\* the transport's _read_ready, and the step of the task sleeping in ping
EventHandles(evs) ==
    (IF "connected" \in evs THEN <<H("step_main")>> ELSE <<>>)
    \o (IF "readable" \in evs THEN <<H("read_ready")>> ELSE <<>>)
    \o (IF "timer" \in evs THEN <<H("step_ping")>> ELSE <<>>)

\* run_forever: after an iteration, "if self._stopping: break" (its finally
\* resets _stopping and the thread's target returns)
StopsNow(flag) == flag

LoopStops ==
    /\ LoopThread
    /\ ntodo = 0
    /\ StopsNow(stopping)
    /\ daemon' = "stopped"
    /\ stopping' = FALSE
    /\ UNCHANGED <<listen_funcs, inputs, stop_sign, ready, ntodo, taskVars, sockVars,
                   pingVars, callerVars, hdisc, restVars, logVars, countVars>>

\* _run_once up to the point where it counts the handles to run: select()
\* returns at once when handles are ready, and otherwise when an event
\* arrives; open_connection's outcome is one of the events
Select ==
    /\ LoopThread
    /\ ntodo = 0
    /\ ~StopsNow(stopping)
    /\ \E evs \in SUBSET Events, outcome \in {"open", "refused"} :
        /\ ready # <<>> \/ evs # {}
        /\ "connected" \notin evs => outcome = "open"
        /\ ready' = ready \o EventHandles(evs)
        /\ sock' = IF "connected" \in evs THEN outcome ELSE sock
        /\ ticks' = IF "timer" \in evs THEN ticks + 1 ELSE ticks
        /\ pingTask' = IF "timer" \in evs THEN "woken" ELSE pingTask
        /\ ntodo' = Len(ready')
    /\ UNCHANGED <<listen_funcs, inputs, stop_sign, daemon, stopping, taskVars,
                   rbuf, eof, rexc, script, peerOut, callerVars, hdisc, restVars, logVars,
                   countVars>>

\* the guard and the bookkeeping common to running the oldest ready handle
Runs(k) ==
    /\ LoopThread
    /\ ntodo > 0
    /\ Head(ready).k = k
    /\ ntodo' = ntodo - 1
    /\ UNCHANGED daemon

HasHandle(rdy, k) == \E i \in 1..Len(rdy) : rdy[i].k = k
Replace(rdy, old, new) ==
    [i \in 1..Len(rdy) |-> IF rdy[i].k = old THEN H(new) ELSE rdy[i]]

\* a future asyncio.wait is waiting on completes: the first completion
\* resolves the wait, which schedules the next step of the task blocked in it
WakeMain(rdy, state) ==
    IF state = "waiting" /\ ~HasHandle(rdy, "step_main")
    THEN Append(rdy, H("step_main"))
    ELSE rdy

\* inputs.put_nowait(payload): the item is queued and the waiting getter,
\* if there is one, is woken
RunPut ==
    /\ Runs("put")
    /\ inputs' = QueuePut(inputs, Head(ready).e)
    /\ IF outgoing = "wait"
       THEN /\ outgoing' = "woken"
            /\ ready' = Append(Tail(ready), H("step_outgoing"))
       ELSE /\ outgoing' = outgoing
            /\ ready' = Tail(ready)
    /\ UNCHANGED <<listen_funcs, stop_sign, stopping, conn, connErr, incoming, inData,
                   outItem, sockVars, pingVars, callerVars, hdisc, restVars, logVars, countVars>>

\* stop_sign.set_result(None); on a future that is already done it raises
\* InvalidStateError inside the handle, which the loop logs
RunSetStop ==
    /\ Runs("set_stop")
    /\ stop_sign' = "done"
    /\ ready' = IF stop_sign = "pending" THEN WakeMain(Tail(ready), conn)
                ELSE Tail(ready)
    /\ UNCHANGED <<listen_funcs, inputs, stopping, taskVars, sockVars, pingVars,
                   callerVars, hdisc, restVars, logVars, countVars>>

\* the last step of a cancelled task: it ends with CancelledError
RunCancelled ==
    /\ Runs("cancelled")
    /\ ready' = Tail(ready)
    /\ UNCHANGED <<listen_funcs, inputs, stop_sign, stopping, taskVars, sockVars,
                   pingVars, callerVars, hdisc, restVars, logVars, countVars>>

\* the sizes of what one sock.recv() may return: up to the end of a frame,
\* or a piece that ends inside a length prefix or inside a JSON text
RecvSizes ==
    (1..Len(peerOut)) \cap
        ({PrefixLen - 2, PrefixLen + 1}
            \cup {e - (Len(script) - Len(peerOut)) : e \in FrameEnds(script, 0)})

\* a transport that would go on reading after close()
TransportReadsWhileClosing(state, atEof) == state \in {"open", "closing"} /\ ~atEof

\* the transport reads from the socket while it is open (close() and a lost
\* connection remove the reader) and the end of the stream was not seen
TransportReads(state, atEof) == state = "open" /\ ~atEof

\* the transport's _read_ready: sock.recv() returns some of the bytes in
\* flight (feed_data), b"" at the end of the stream (feed_eof), or fails
\* (connection_lost(exc) -> reader.set_exception); each wakes a waiting read
RunReadReady ==
    /\ Runs("read_ready")
    /\ IF ~TransportReads(sock, eof)
       THEN /\ UNCHANGED <<sockVars, incoming>>
            /\ ready' = Tail(ready)
       ELSE /\ \/ \E n \in RecvSizes :
                    /\ rbuf' = rbuf \o SubSeq(peerOut, 1, n)
                    /\ peerOut' = SubSeq(peerOut, n + 1, Len(peerOut))
                    /\ UNCHANGED <<sock, eof, rexc>>
               \/ /\ peerOut = <<>>
                  /\ eof' = TRUE
                  /\ UNCHANGED <<sock, rbuf, rexc, peerOut>>
               \/ /\ sock' = "reset"
                  /\ rexc' = TRUE
                  /\ UNCHANGED <<rbuf, eof, peerOut>>
            /\ script' = script
            /\ IF incoming = "wait"
               THEN /\ incoming' = "woken"
                    /\ ready' = Append(Tail(ready), H("step_incoming"))
               ELSE /\ incoming' = incoming
                    /\ ready' = Tail(ready)
    /\ UNCHANGED <<listen_funcs, inputs, stop_sign, stopping, conn, connErr, outgoing,
                   inData, outItem, pingVars, callerVars, hdisc, restVars, logVars, countVars>>

\* the transport's _call_connection_lost after close(): the socket is closed
RunConnectionLost ==
    /\ Runs("connection_lost")
    /\ sock' = "closed"
    /\ ready' = Tail(ready)
    /\ UNCHANGED <<listen_funcs, inputs, stop_sign, stopping, taskVars, rbuf, eof,
                   rexc, script, peerOut, pingVars, callerVars, hdisc, restVars, logVars,
                   countVars>>

(***************************************************************************)
(* The tasks of the loop: ping, the two waits of a loop iteration, and     *)
(* _connect_then_listen.                                                   *)
(***************************************************************************)
\* EventBus.ping, one turn of its loop: self.send(Delivery()), then
\* await asyncio.sleep(ping_interval_by_seconds)
RunPing ==
    /\ Runs("step_ping")
    /\ listen_funcs' = SendRegisters(listen_funcs, Ping)
    /\ ready' = CallSoonPut(Tail(ready), Ping)
    /\ sendLog' = Append(sendLog, Ping)
    /\ pingTask' = "sleeping"
    /\ UNCHANGED <<inputs, stop_sign, stopping, taskVars, sockVars, ticks,
                   callerVars, hdisc, restVars, written, dispatched, invoked, countVars>>

\* what reader.read(n) returns from the buffer, and what it leaves there
ReadChunk(buf, n) == SubSeq(buf, 1, Min(n, Len(buf)))
ReadRest(buf, n)  == SubSeq(buf, Min(n, Len(buf)) + 1, Len(buf))

\* a step of the task around reader.read(100000): it raises the reader's
\* exception, waits while the buffer is empty and the stream is open, and
\* otherwise returns what is buffered (b"" at the end of the stream)
RunIncoming ==
    /\ Runs("step_incoming")
    /\ IF rexc
       THEN /\ incoming' = "failed"
            /\ ready' = WakeMain(Tail(ready), conn)
            /\ UNCHANGED <<inData, rbuf>>
       ELSE IF rbuf = <<>> /\ ~eof
       THEN /\ incoming' = "wait"
            /\ ready' = Tail(ready)
            /\ UNCHANGED <<inData, rbuf>>
       ELSE /\ incoming' = "done"
            /\ inData' = ReadChunk(rbuf, ReadLimit)
            /\ rbuf' = ReadRest(rbuf, ReadLimit)
            /\ ready' = WakeMain(Tail(ready), conn)
    /\ UNCHANGED <<listen_funcs, inputs, stop_sign, stopping, conn, connErr, outgoing,
                   outItem, sock, eof, rexc, script, peerOut, pingVars, callerVars,
                   hdisc, restVars, logVars, countVars>>

\* a step of the task around self.inputs.get(): it waits while the queue is
\* empty and otherwise takes the oldest item
RunOutgoing ==
    /\ Runs("step_outgoing")
    /\ IF inputs = <<>>
       THEN /\ outgoing' = "wait"
            /\ ready' = Tail(ready)
            /\ UNCHANGED <<outItem, inputs>>
       ELSE /\ outgoing' = "done"
            /\ outItem' = QueueHead(inputs)
            /\ inputs' = QueueRest(inputs)
            /\ ready' = WakeMain(Tail(ready), conn)
    /\ UNCHANGED <<listen_funcs, stop_sign, stopping, conn, connErr, incoming, inData,
                   sockVars, pingVars, callerVars, hdisc, restVars, logVars, countVars>>

\* line 54, first step: await asyncio.open_connection(host, port)
RunOpenConnection ==
    /\ Runs("step_main")
    /\ conn = "created"
    /\ conn' = "connecting"
    /\ ready' = Tail(ready)
    /\ UNCHANGED <<listen_funcs, inputs, stop_sign, stopping, connErr, incoming,
                   outgoing, inData, outItem, sockVars, pingVars, callerVars, hdisc, restVars,
                   logVars, countVars>>

\* line 54 when the connection cannot be opened: the exception leaves the
\* coroutine before its try block
RunConnectFailed ==
    /\ Runs("step_main")
    /\ conn = "connecting"
    /\ sock = "refused"
    /\ conn' = "finished"
    /\ connErr' = "refused"
    /\ ready' = Tail(ready)
    /\ UNCHANGED <<listen_funcs, inputs, stop_sign, stopping, incoming, outgoing,
                   inData, outItem, sockVars, pingVars, callerVars, hdisc, restVars, logVars,
                   countVars>>

\* a loop body that would not cancel the wait that did not complete
CancelNothing(rdy, state, step) == rdy

\* task.cancel() on a pending task: a task whose step is already scheduled
\* takes the CancelledError in that step, a suspended one is woken with it;
\* either way the cancelled task consumes nothing
Cancel(rdy, state, step) ==
    IF state \in {"sched", "woken"} THEN Replace(rdy, step, "cancelled")
    ELSE IF state = "wait" THEN Append(rdy, H("cancelled"))
    ELSE rdy

\* a loop iteration that would wait for socket data only
SpawnReadOnly(rdy, stop) ==
    rdy \o <<H("step_incoming")>>
        \o (IF stop = "done" THEN <<H("step_main")>> ELSE <<>>)

\* lines 57-60: the two tasks of an iteration are created (their first
\* steps scheduled) and the task blocks in asyncio.wait, which returns at
\* once when stop_sign is already done
Spawn(rdy, stop) ==
    rdy \o <<H("step_incoming"), H("step_outgoing")>>
        \o (IF stop = "done" THEN <<H("step_main")>> ELSE <<>>)

\* lines 55-60 on first entry: the connection is open, the loop begins
RunEnterLoop ==
    /\ Runs("step_main")
    /\ conn = "connecting"
    /\ sock # "refused"
    /\ conn' = "waiting"
    /\ incoming' = "sched"
    /\ outgoing' = "sched"
    /\ ready' = Spawn(Tail(ready), stop_sign)
    /\ UNCHANGED <<listen_funcs, inputs, stop_sign, stopping, connErr, inData, outItem,
                   sockVars, pingVars, callerVars, hdisc, restVars, logVars, countVars>>

\* writer.write(data): the transport takes the bytes unless the connection
\* is already lost
WriterWrite(out, state, data) == IF state = "open" THEN Append(out, data) ELSE out

\* line 79: the loop is left once stop_sign is done
Breaks(stop) == stop = "done"

\* a listen that would catch what a handler raises
HandlerFailsIgnored(called, behaviour) == FALSE

\* line 116: func(body) is called unguarded, so what a caller-supplied
\* handler raises (the RuntimeError of its disconnect() included) leaves
\* listen and the loop body
HandlerFails(called, behaviour) == called /\ behaviour # "return"

\* lines 59-83, one wake-up of the loop body after asyncio.wait returns:
\* cancel what is pending, write the envelope taken from the queue, decode
\* and dispatch the bytes read, leave on the stop signal; then either the
\* next iteration's waits or the finally block.  In the finally block
\* writer.close() returns None, so "await writer.close()" raises TypeError
\* once the transport has been told to close, and line 83 is not reached.
\* A handler that calls disconnect() runs lines 105-106 and gets
\* RuntimeError from daemon.join(), which joins the thread it runs on.
RunLoopBody ==
    /\ Runs("step_main")
    /\ conn = "waiting"
    \* decoded: Delivery.deserialize(incoming.result()) of line 73
    /\ \E hb \in HandlerBehaviours, decoded \in {Deserialize(inData)} :
        LET incDone  == incoming \in {"done", "failed"}
            outDone  == outgoing = "done"
            rdy1 == IF incDone THEN Tail(ready)
                    ELSE Cancel(Tail(ready), incoming, "step_incoming")
            rdy2 == IF outDone THEN rdy1
                    ELSE Cancel(rdy1, outgoing, "step_outgoing")
            \* lines 67-71
            drainErr == outDone /\ rexc
            \* lines 73-77
            reads    == incDone /\ ~drainErr
            readErr  == reads /\ incoming = "failed"
            decodes  == reads /\ ~readErr
            frameErr == decodes /\ ~decoded.ok
            listens  == decodes /\ decoded.ok
            calls    == IF listens THEN Listen(listen_funcs, decoded.obj) ELSE <<>>
            custom   == calls # <<>> /\ calls[1][1] \in CallerHandlers
            handlerErr == HandlerFails(custom, hb)
            hstop    == custom /\ hb = "disconnect"
            rdy3 == IF hstop THEN Append(rdy2, H("set_stop")) ELSE rdy2
            failed == drainErr \/ readErr \/ frameErr \/ handlerErr
            leaves == failed \/ Breaks(stop_sign)
        IN  /\ ~custom => hb = "return"
            /\ written' = IF outDone THEN WriterWrite(written, sock, Serialize(outItem))
                          ELSE written
            /\ dispatched' = IF listens THEN Append(dispatched, decoded.obj)
                             ELSE dispatched
            /\ invoked' = invoked \o calls
            /\ stopping' = (stopping \/ hstop)
            /\ hdisc' = IF hstop THEN "raised" ELSE hdisc
            /\ hres' = IF custom THEN hb ELSE hres
            /\ handed' = IF decodes THEN handed \o inData ELSE handed
            /\ IF leaves
               THEN /\ conn' = "finished"
                    /\ connErr' = IF failed THEN "error" ELSE "stop"
                    /\ incoming' = "none"
                    /\ outgoing' = "none"
                    /\ sock' = IF sock = "open" THEN "closing" ELSE sock
                    /\ ready' = IF sock = "open"
                                THEN Append(rdy3, H("connection_lost"))
                                ELSE rdy3
               ELSE /\ conn' = "waiting"
                    /\ connErr' = connErr
                    /\ incoming' = "sched"
                    /\ outgoing' = "sched"
                    /\ sock' = sock
                    /\ ready' = Spawn(rdy3, stop_sign)
    /\ inData' = <<>>
    /\ outItem' = Ping
    /\ UNCHANGED <<listen_funcs, inputs, stop_sign, rbuf, eof, rexc, script, peerOut,
                   pingVars, callerVars, sendLog, countVars, codec>>

\* the steps of the loop thread while nothing has asked it to stop
LoopStep ==
    \/ Select
    \/ RunPut
    \/ RunCancelled
    \/ RunReadReady
    \/ RunConnectionLost
    \/ RunPing
    \/ RunIncoming
    \/ RunOutgoing
    \/ RunOpenConnection
    \/ RunConnectFailed
    \/ RunEnterLoop
    \/ RunLoopBody

\* the caller's disconnect
Disconnect ==
    \/ DisconnectSignal
    \/ DisconnectStop
    \/ DisconnectJoin

\* the caller's disconnect, called once it has made all of its limit calls
DisconnectAfter(limit) == ncalls = limit /\ Disconnect

(***************************************************************************)
(* The codec on its own: the caller builds a Delivery, serializes it and   *)
(* deserializes the frame.  An argument is None (not supplied), "" (a      *)
(* falsy value such as an empty string or an empty mapping) or a value.    *)
(***************************************************************************)
CodecTypes == {"ping", "send"}
CodecArgs == {None, "", "x"}

\* e = Delivery(type, address, replyAddress, header, body)
CodecBuild(type, address, replyAddress, header, body) ==
    /\ codec.stage = "idle"
    /\ codec' = [codec EXCEPT
                    !.stage = "built",
                    !.args = <<type, address, replyAddress, header, body>>,
                    !.data = Delivery(type, address, replyAddress, header, body)]
    /\ UNCHANGED <<listen_funcs, inputs, loopVars, daemon, taskVars, sockVars,
                   pingVars, callerVars, hdisc, hres, handed, logVars, countVars>>

\* frame = e.serialize()
CodecSerialize ==
    /\ codec.stage = "built"
    /\ codec' = [codec EXCEPT !.stage = "serialized",
                              !.frame = Serialize(codec.data)]
    /\ UNCHANGED <<listen_funcs, inputs, loopVars, daemon, taskVars, sockVars,
                   pingVars, callerVars, hdisc, hres, handed, logVars, countVars>>

\* obj = Delivery.deserialize(frame)
CodecDeserialize ==
    /\ codec.stage = "serialized"
    /\ codec' = [codec EXCEPT !.stage = "deserialized",
                              !.ok = Deserialize(codec.frame).ok,
                              !.obj = Deserialize(codec.frame).obj]
    /\ UNCHANGED <<listen_funcs, inputs, loopVars, daemon, taskVars, sockVars,
                   pingVars, callerVars, hdisc, hres, handed, logVars, countVars>>

NextCodec ==
    \/ \E type \in CodecTypes, address, replyAddress, header, body \in CodecArgs :
          CodecBuild(type, address, replyAddress, header, body)
    \/ CodecSerialize
    \/ CodecDeserialize

(***************************************************************************)
(* Spec: a session that the caller connects once and disconnects.          *)
(***************************************************************************)
Init == InitWith(PeerScripts({MessageA}, MaxInbound))

Next ==
    \/ \E payload \in {SendA, RegisterA} : Send(payload, MaxCalls)
    \/ AddListenFunc("a", "h1", MaxCalls)
    \/ Connect
    \/ Disconnect
    \/ LoopStep
    \/ RunSetStop
    \/ LoopStops

Spec == Init /\ [][Next]_vars

(***************************************************************************)
(* SpecOutbound: the outbound path, with more sends.  The caller does not  *)
(* disconnect and registers no handler of its own, so nothing calls        *)
(* loop.stop() or stop_sign.set_result and the loop thread never stops.    *)
(***************************************************************************)
NextOutbound ==
    \/ \E payload \in SendEnvs : Send(payload, MaxSends)
    \/ Connect
    \/ LoopStep

SpecOutbound == Init /\ [][NextOutbound]_vars

(***************************************************************************)
(* SpecDuplex: both directions at once, with a peer that keeps the         *)
(* connection open: it neither closes nor resets it, and the socket is     *)
(* reported readable only when bytes have arrived.  The loop thread is     *)
(* scheduled fairly: run_forever takes its next step whenever it has one.  *)
(***************************************************************************)
PeerKeepsOpen ==
    /\ eof' = eof
    /\ rexc' = rexc
    /\ (HasHandle(ready', "read_ready") /\ ~HasHandle(ready, "read_ready"))
          => peerOut # <<>>

InitDuplex == InitWith(PeerScripts({MessageA}, MaxFrames))

NextDuplex ==
    \/ \E payload \in {SendA, RegisterA} : Send(payload, MaxCalls)
    \/ Connect
    \/ LoopStep /\ PeerKeepsOpen

SpecDuplex ==
    InitDuplex /\ [][NextDuplex]_vars /\ WF_vars(LoopStep /\ PeerKeepsOpen)

(***************************************************************************)
(* SpecCodec: codec round trips of every envelope the caller can build.    *)
(***************************************************************************)
SpecCodec == Init /\ [][NextCodec]_vars

(***************************************************************************)
(* SpecInbound: the inbound path, with more and different frames; the      *)
(* caller disconnects after registering its handler.                       *)
(***************************************************************************)
InitInbound == InitWith(PeerScripts(PeerEnvs, MaxFrames))

NextInbound ==
    \/ AddListenFunc("a", "h1", MaxCalls)
    \/ Connect
    \/ DisconnectAfter(MaxCalls)
    \/ LoopStep
    \/ RunSetStop
    \/ LoopStops

SpecInbound == InitInbound /\ [][NextInbound]_vars

(***************************************************************************)
(* SpecRegistry: the listener registry under every registering call.  The  *)
(* caller does not disconnect; a handler that does stops the loop before   *)
(* the stop_sign.set_result it scheduled is run.                           *)
(***************************************************************************)
InitRegistry == InitWith(PeerScripts(PeerEnvs, MaxInbound))

NextRegistry ==
    \/ \E payload \in SendEnvs : Send(payload, MaxRegCalls)
    \/ \E address \in Addrs, func \in CallerHandlers :
          AddListenFunc(address, func, MaxRegCalls)
    \/ \E address \in Addrs : DeleteListenFunc(address, MaxRegCalls)
    \/ Connect
    \/ LoopStep
    \/ LoopStops

SpecRegistry == InitRegistry /\ [][NextRegistry]_vars

(***************************************************************************)
(* SpecReconnect: Spec, and a caller that calls connect() again while the  *)
(* session is connected.  connect() creates its two tasks and then fails   *)
(* in daemon.start() (RuntimeError: a thread can be started only once).    *)
(* The session is followed up to that call.                                *)
(***************************************************************************)
ConnectAgain ==
    /\ daemon = "started"
    /\ loopTasks = 1
    /\ ready' = ready \o <<H("step_main"), H("step_ping")>>
    /\ loopTasks' = loopTasks + 1
    /\ pingTasks' = pingTasks + 1
    /\ UNCHANGED <<listen_funcs, inputs, stop_sign, daemon, stopping, ntodo, taskVars,
                   sockVars, pingVars, callerVars, hdisc, restVars, logVars>>

NextReconnect ==
    \/ Next
    \/ ConnectAgain

SpecReconnect == Init /\ [][NextReconnect]_vars

(***************************************************************************)
(* The claims.                                                             *)
(***************************************************************************)
Last(s) == s[Len(s)]
Puts(rdy) ==
    LET ps == SelectSeq(rdy, LAMBDA h : h.k = "put")
    IN  [i \in 1..Len(ps) |-> ps[i].e]
Closed == conn = "finished" /\ sock \in {"closing", "closed", "reset"}

\* what the keepalive is to enqueue: type "ping" and no other field
PingEnvelope == [k \in {"type"} |-> "ping"]
\* the ping envelopes among the envelopes of a log
Pings(log) == Len(SelectSeq(log, LAMBDA e : e = PingEnvelope))

\* C1: the frames are written to the socket in the order of the send()
\* calls: at every moment the frames written are the serialized envelopes
\* of the first send() calls, in call order.
C1_FifoTransmission ==
    /\ Len(written) <= Len(sendLog)
    /\ \A i \in 1..Len(written) : written[i] = Serialize(sendLog[i])

\* two caller envelopes and the keepalive pings have all been written, with
\* an inbound frame dispatched in between
C1_Witness ==
    /\ Len(written) = MaxSends + MaxPings + 1
    /\ \E i, j \in 1..Len(written) : written[i] # written[j]
    /\ dispatched # <<>>

\* C2 (as claimed): when disconnect() is called while the connection loop
\* is blocked in asyncio.wait, then once disconnect() has returned the loop
\* has closed its writer and the loop thread has terminated.
C2_DisconnectLeavesClosed ==
    (disc = "returned" /\ discRunning) => (Closed /\ daemon = "stopped")

\* C3 (as claimed): every call of disconnect() on a connected session
\* returns, whichever thread makes it; so no call ends by raising.
C3_DisconnectReturns == hdisc # "raised"

\* C4: once disconnect() has returned, nothing more is dispatched and no
\* handler is invoked.
C4_NoDispatchAfterDisconnect ==
    [][disc = "returned" => (invoked' = invoked /\ dispatched' = dispatched)]_vars

\* disconnect() has returned while received bytes wait in the reader and a
\* handler is registered for their address
C4_Witness ==
    /\ disc = "returned"
    /\ discRunning
    /\ rbuf # <<>>
    /\ Get(listen_funcs, "a") # None

\* the complete frames of an aligned byte stream, decoded, in order
RECURSIVE FramesIn(_)
FramesIn(bytes) ==
    IF Len(bytes) < PrefixLen THEN <<>>
    ELSE LET size == PrefixLen + FromBytes(SubSeq(bytes, 1, PrefixLen))
         IN  IF Len(bytes) < size THEN <<>>
             ELSE <<Loads(SubSeq(bytes, PrefixLen + 1, size)).obj>>
                  \o FramesIn(SubSeq(bytes, size + 1, Len(bytes)))

\* the bytes of the stream that completed reads have handed to the loop body
Consumed ==
    SubSeq(script, 1, Len(script) - Len(peerOut) - Len(rbuf) - Len(inData))

\* C5 (as claimed): however the stream is split into reads, every complete
\* frame handed to the loop has been dispatched, once and in arrival order.
C5_EveryFrameDispatched == dispatched = FramesIn(Consumed)

\* what the claim says listen(obj) invokes, given the registry
C6_Expected(funcs, obj) ==
    IF /\ "address" \in DOMAIN obj
       /\ "body" \in DOMAIN obj
       /\ obj["address"] \in DOMAIN funcs
    THEN <<<<funcs[obj["address"]], obj["body"]>>>>
    ELSE <<>>

\* C6: a dispatch invokes the handler registered for the mapping's address,
\* once and with its body, exactly when the mapping has both "address" and
\* "body" and the address has a handler; otherwise it invokes nothing; it
\* never changes the registry; and handlers are invoked by dispatch only.
C6_DispatchFilter ==
    [][/\ dispatched' # dispatched =>
            /\ invoked' = invoked \o C6_Expected(listen_funcs, Last(dispatched'))
            /\ listen_funcs' = listen_funcs
       /\ invoked' # invoked => dispatched' # dispatched]_vars

\* a frame without "body" has been dispatched to an address that has a
\* handler, and another frame has reached its handler
C6_Witness ==
    /\ \E i \in 1..Len(dispatched) :
          /\ "body" \notin DOMAIN dispatched[i]
          /\ Get(dispatched[i], "address") \in DOMAIN listen_funcs
    /\ invoked # <<>>

\* the last registering call on an address, 0 when there is none
C7_LastOn(log, address) ==
    LET on == {i \in 1..Len(log) : log[i][2] = address}
    IN  IF on = {} THEN 0 ELSE CHOOSE i \in on : \A j \in on : j <= i

\* C7: the registry holds, for every address, the handler installed by the
\* most recent registering call on it (add_listen_func or a send of type
\* register), and nothing for an address never registered or deleted last.
C7_LastWriteWins ==
    \A address \in Addrs :
        LET i == C7_LastOn(regLog, address)
        IN  IF i = 0 \/ regLog[i][1] = "delete"
            THEN address \notin DOMAIN listen_funcs
            ELSE /\ address \in DOMAIN listen_funcs
                 /\ listen_funcs[address] = regLog[i][3]

\* a send of type register has followed an add_listen_func on its address
C7_Witness ==
    /\ Len(regLog) >= 2
    /\ regLog[1][1] = "add"
    /\ regLog[2][1] = "register"
    /\ regLog[1][2] = regLog[2][2]
    /\ listen_funcs[regLog[2][2]] = DefaultHandler

\* C8: a call of send(envelope) hands exactly that one envelope to the
\* outbound queue without writing anything, and changes the registry only
\* for type "register" with an address, where it installs the default
\* handler for that address.
C8_SendEffect ==
    [][sendLog' # sendLog =>
        LET payload == Last(sendLog')
        IN  /\ sendLog' = Append(sendLog, payload)
            /\ Puts(ready') = Append(Puts(ready), payload)
            /\ inputs' = inputs
            /\ written' = written
            /\ listen_funcs' =
                 IF "address" \in DOMAIN payload /\ payload["type"] = "register"
                 THEN [a \in DOMAIN listen_funcs \cup {payload["address"]} |->
                         IF a = payload["address"] THEN DefaultHandler
                         ELSE listen_funcs[a]]
                 ELSE listen_funcs]_vars

\* a register without an address and a send with one have been sent, and
\* the registry is still empty
C8_Witness ==
    /\ \E i, j \in 1..Len(sendLog) : sendLog[i] = Register0 /\ sendLog[j] = SendA
    /\ listen_funcs = EmptyDict
    /\ written # <<>>

\* C9 (as claimed): connect() on a connected session leaves it with one
\* connection loop task and one keepalive task.
C9_ConnectTwiceUnchanged ==
    daemon = "started" => (loopTasks = 1 /\ pingTasks = 1)

\* C10 (as claimed): once the connection loop has ended with an error, the
\* keepalive task, asleep between two pings, is never woken for another one.
C10_ErrorEndsKeepalive ==
    [][(connErr = "error" /\ pingTask = "sleeping") => pingTask' = "sleeping"]_vars

\* C11 (as claimed): once the connection could not be opened, the connection
\* loop stays ended without a read or a write, and the keepalive task,
\* asleep between two pings, is never woken to send another one.
C11_RefusedEndsKeepalive ==
    [][connErr = "refused" =>
          /\ conn' = "finished"
          /\ written' = written
          /\ handed' = handed
          /\ pingTask = "sleeping" => pingTask' = "sleeping"]_vars

\* C12: the keepalive passes an envelope of type "ping" with no other field
\* to send() once per interval: when N intervals have expired, at least N
\* such envelopes have been sent.
C12_KeepaliveCadence == Pings(sendLog) >= ticks

\* every interval of the session has expired, a ping was sent at the start
\* and after each of them, and all of them were written to the socket
C12_Witness ==
    /\ ticks = MaxPings
    /\ Pings(sendLog) = MaxPings + 1
    /\ Len(SelectSeq(written, LAMBDA f : f = Serialize(PingEnvelope))) = MaxPings + 1

\* C13 (as claimed): once disconnect() has returned, the keepalive task has
\* been cancelled: it is no longer pending.
C13_KeepaliveCancelled ==
    disc = "returned" => pingTask \notin {"created", "sleeping", "woken"}

\* the mapping the claim expects back: type and every optional field that
\* was supplied, with the value supplied
C14_Supplied(args) ==
    LET given == {i \in 1..Len(OptKeys) : args[i + 1] # None}
    IN  [k \in {"type"} \cup {OptKeys[i] : i \in given} |->
            IF k = "type" THEN args[1] ELSE args[IndexOf(OptKeys, k) + 1]]

\* C14 (as claimed): deserialize(serialize(e)) is the mapping of exactly the
\* fields supplied for e, with their values, and the length prefix of the
\* frame is the length of the JSON text that follows it.
C14_RoundTrip ==
    codec.stage = "deserialized" =>
        /\ codec.ok
        /\ codec.obj = C14_Supplied(codec.args)
        /\ FromBytes(SubSeq(codec.frame, 1, PrefixLen)) = Len(codec.frame) - PrefixLen

\* a wait of the loop iteration is pending: created and not yet completed
Pending(task) == task \in {"sched", "wait", "woken"}

\* C15 (as claimed): once disconnect() has returned, neither the socket-read
\* wait nor the queue-get wait of the last loop iteration is left pending.
C15_NoLeakedWaits ==
    disc = "returned" => (~Pending(incoming) /\ ~Pending(outgoing))

\* C16: once the connection loop has left its while loop (on the stop signal
\* or on an error), nothing more is received from the socket or read from
\* the reader, nothing is taken from the queue or written, and nothing is
\* dispatched; the socket only goes on to be closed.
C16_DrainingIsQuiet ==
    [][conn = "finished" =>
          /\ conn' = "finished"
          /\ peerOut' = peerOut
          /\ rbuf' = rbuf
          /\ handed' = handed
          /\ Len(inputs') >= Len(inputs)
          /\ written' = written
          /\ dispatched' = dispatched
          /\ invoked' = invoked
          /\ sock' \in {sock, "closed"}]_vars

\* the loop has left on the stop signal and closed the socket, with received
\* bytes still in the reader and an envelope still in the queue
C16_Witness ==
    /\ conn = "finished"
    /\ connErr = "stop"
    /\ sock = "closed"
    /\ rbuf # <<>>
    /\ inputs # <<>>

\* the frames of a sequence of envelopes
Frames(envs) == [i \in 1..Len(envs) |-> Serialize(envs[i])]
\* the envelopes put on the outbound queue so far: those passed to send()
\* whose put_nowait the loop has run
PutsDone == SubSeq(sendLog, 1, Len(sendLog) - Len(Puts(ready)))

\* C18: while the connection loop has not ended, the envelopes put on the
\* queue are, in order, those written, the one a completed get holds, and
\* those still in the queue; and the bytes the peer wrote are, in order,
\* those handed to deserialize, those a completed read holds, those in the
\* reader's buffer and those still in flight.
C18_NothingLostOrDuplicated ==
    conn # "finished" =>
        /\ written \o (IF outgoing = "done" THEN <<Serialize(outItem)>> ELSE <<>>)
                   \o Frames(inputs) = Frames(PutsDone)
        /\ handed \o inData \o rbuf \o peerOut = script

\* a wait that did not complete has just been cancelled, between a frame
\* written and handed bytes on one side and a queued envelope on the other
C18_Witness ==
    /\ conn = "waiting"
    /\ HasHandle(ready, "cancelled")
    /\ written # <<>>
    /\ handed # <<>>
    /\ inputs # <<>>

\* C19: until the connection loop is running, every envelope passed to
\* send() is retained, in call order, in the queue or on its way to it, and
\* nothing is written; and the frames written afterwards follow the order
\* of the send() calls, so those sent first are written first.
C19_EarlySendsRetained ==
    /\ conn \in {"none", "created", "connecting"} =>
          /\ written = <<>>
          /\ inputs \o Puts(ready) = sendLog
    /\ Frames(SubSeq(sendLog, 1, Len(written))) = written

\* the caller's envelopes, sent before the keepalive's first ping (so before
\* or just after connect()), were written first, and the pings after them
C19_Witness ==
    /\ Len(written) = MaxSends + 1
    /\ \A i \in 1..MaxSends : written[i] # Serialize(PingEnvelope)
    /\ written[MaxSends + 1] = Serialize(PingEnvelope)

\* C20: a loop body in which a caller-supplied handler raises ends the
\* connection loop with the socket closed or closing, and after it nothing
\* is read, written or dispatched, the failing frame included.
C20_HandlerErrorIsFatal ==
    [][/\ hres' = "raise" => (connErr' = "error" /\ Closed')
       /\ hres = "raise" =>
             /\ rbuf' = rbuf
             /\ handed' = handed
             /\ written' = written
             /\ dispatched' = dispatched
             /\ invoked' = invoked]_vars

\* the handler raised on the first frame and the socket was closed with the
\* bytes received after it still in the reader
C20_Witness ==
    /\ hres = "raise"
    /\ sock = "closed"
    /\ Len(dispatched) = 1
    /\ rbuf # <<>>

=============================================================================
